---- MODULE Spec2Model ----
(***************************************************************************)
(* Model of the estimators that the feature-engineering notebook drives:   *)
(* one estimator object (its class and constructor arguments fixed at      *)
(* construction), its fitted attributes, and the calls the notebook makes  *)
(* on it (fit, transform, fit_transform, inverse_transform).  Strings are  *)
(* tuples of code points so that the sort order used for classes_ and      *)
(* feature_names_ is computed, not assumed.                                *)
(***************************************************************************)
EXTENDS Integers, Sequences, FiniteSets, TLC

VARIABLES cls, cfg, fitted, attrs, op, inp, out, err, pc, Xt, calls

vars == <<cls, cfg, fitted, attrs, op, inp, out, err, pc, Xt, calls>>

----------------------------------------------------------------------------
(* Bounds of the explored inputs *)

MaxLabels == 2
MaxRecords == 2
MaxDocs == 2
MaxRows == 2
MaxDegree == 3
MaxFrameRows == 3
MaxRuns == 4

----------------------------------------------------------------------------
(* String literals of the notebook, as code points *)

Fremont == <<70, 114, 101, 109, 111, 110, 116>>
QueenAnne == <<81, 117, 101, 101, 110, 32, 65, 110, 110, 101>>
Wallingford == <<87, 97, 108, 108, 105, 110, 103, 102, 111, 114, 100>>
neighborhood == <<110, 101, 105, 103, 104, 98, 111, 114, 104, 111, 111, 100>>
Selangor == <<83, 101, 108, 97, 110, 103, 111, 114>>
Kedah == <<75, 101, 100, 97, 104>>
WilayahPersekutuan == <<87, 105, 108, 97, 121, 97, 104, 32, 80, 101, 114, 115, 101, 107, 117, 116, 117, 97, 110>>

evil_queen == <<101, 118, 105, 108, 32, 113, 117, 101, 101, 110>>
problem_of_evil == <<112, 114, 111, 98, 108, 101, 109, 32, 111, 102, 32, 101, 118, 105, 108>>
horizon_problem == <<104, 111, 114, 105, 122, 111, 110, 32, 112, 114, 111, 98, 108, 101, 109>>
Evil_evil_a == <<69, 118, 105, 108, 32, 101, 118, 105, 108, 32, 97>>
a_only == <<97>>
evil == <<101, 118, 105, 108>>
queen == <<113, 117, 101, 101, 110>>
problem == <<112, 114, 111, 98, 108, 101, 109>>
of == <<111, 102>>
horizon == <<104, 111, 114, 105, 122, 111, 110>>

sample == <<problem_of_evil, evil_queen, horizon_problem>>

male == <<109, 97, 108, 101>>
female == <<102, 101, 109, 97, 108, 101>>
port_S == <<83>>
port_C == <<67>>

titanic == [gender |-> <<male, male, female>>, embarked |-> <<port_S, port_C, port_S>>]

train == <<Selangor, Selangor, WilayahPersekutuan, Kedah>>
test == <<WilayahPersekutuan, WilayahPersekutuan, Selangor>>

data == <<[neighborhood |-> QueenAnne], [neighborhood |-> Fremont],
          [neighborhood |-> Wallingford], [neighborhood |-> Fremont]>>

Neighborhoods == {Fremont, QueenAnne, Wallingford}
States == {Selangor, Kedah, WilayahPersekutuan}

----------------------------------------------------------------------------
(* Generic helpers *)

Range(s) == {s[i] : i \in DOMAIN s}

SeqsUpTo(S, n) == UNION {[1..k -> S] : k \in 1..n}

NoOutput == <<>>

RECURSIVE LexLessFrom(_, _, _)
LexLessFrom(a, b, i) ==
    IF i > Len(a) THEN i <= Len(b)
    ELSE IF i > Len(b) THEN FALSE
    ELSE IF a[i] < b[i] THEN TRUE
    ELSE IF a[i] > b[i] THEN FALSE
    ELSE LexLessFrom(a, b, i + 1)

LexLess_shortlex(a, b) ==
    Len(a) < Len(b) \/ (Len(a) = Len(b) /\ LexLessFrom(a, b, 1))

LexLess(a, b) == LexLessFrom(a, b, 1)

RECURSIVE SortedUnique(_)
SortedUnique(S) ==
    IF S = {} THEN <<>>
    ELSE LET m == CHOOSE x \in S : \A y \in S \ {x} : LexLess(x, y)
         IN <<m>> \o SortedUnique(S \ {m})

IndexOf(s, x) == (CHOOSE i \in DOMAIN s : s[i] = x) - 1

Result(o, e) == [out |-> o, err |-> e]

Fitted(a) == [attrs |-> a, err |-> "none"]

----------------------------------------------------------------------------
(* LabelEncoder *)

LabelEncoder_new == [classes_ |-> <<>>]

LabelEncoder_fit(self, y) == Fitted([classes_ |-> SortedUnique(Range(y))])

LabelEncoder_transform_searchsorted(self, y) ==
    Result([i \in DOMAIN y |->
              Cardinality({j \in DOMAIN self.classes_ : LexLess(self.classes_[j], y[i])})],
           "none")

LabelEncoder_transform(self, y) ==
    IF \E i \in DOMAIN y : y[i] \notin Range(self.classes_)
    THEN Result(NoOutput, "ValueError: y contains previously unseen labels")
    ELSE Result([i \in DOMAIN y |-> IndexOf(self.classes_, y[i])], "none")

LabelEncoder_inverse_transform(self, codes) ==
    IF \E i \in DOMAIN codes : codes[i] \notin 0..(Len(self.classes_) - 1)
    THEN Result(NoOutput, "ValueError: y contains previously unseen labels")
    ELSE Result([i \in DOMAIN codes |-> self.classes_[codes[i] + 1]], "none")

----------------------------------------------------------------------------
(* DictVectorizer(sparse=False, dtype=int) on records with one string field *)

FeatureName(f, v) == f \o <<61>> \o v

DictVectorizer_new == [feature_names_ |-> <<>>]

DictVectorizer_fit_unmerged(self, X) ==
    Fitted([feature_names_ |->
        [i \in DOMAIN X |-> FeatureName(neighborhood, X[i].neighborhood)]])

DictVectorizer_fit(self, X) ==
    Fitted([feature_names_ |->
        SortedUnique({FeatureName(neighborhood, X[i].neighborhood) : i \in DOMAIN X})])

DictVectorizer_transform(self, X) ==
    Result([i \in DOMAIN X |->
              [j \in DOMAIN self.feature_names_ |->
                  IF self.feature_names_[j] = FeatureName(neighborhood, X[i].neighborhood)
                  THEN 1 ELSE 0]],
           "none")

----------------------------------------------------------------------------
(* CountVectorizer() with its defaults: lowercase=True and                  *)
(* token_pattern (?u)\b\w\w+\b, i.e. maximal runs of two or more word      *)
(* characters                                                               *)

lower(c) == IF c \in 65..90 THEN c + 32 ELSE c

IsWordChar(c) ==
    \/ (48 <= c /\ c <= 57)
    \/ (65 <= c /\ c <= 90)
    \/ (97 <= c /\ c <= 122)
    \/ c = 95

Flush(cur) == IF Len(cur) >= 2 THEN <<cur>> ELSE <<>>

RECURSIVE TokensFrom(_, _, _)
TokensFrom(s, i, cur) ==
    IF i > Len(s) THEN Flush(cur)
    ELSE IF IsWordChar(s[i]) THEN TokensFrom(s, i + 1, Append(cur, lower(s[i])))
    ELSE Flush(cur) \o TokensFrom(s, i + 1, <<>>)

analyze(doc) == TokensFrom(doc, 1, <<>>)

CountVectorizer_new == [feature_names_ |-> <<>>]

CountVectorizer_fit(self, raw_documents) ==
    LET vocab == UNION {Range(analyze(raw_documents[i])) : i \in DOMAIN raw_documents}
    IN IF vocab = {}
       THEN [attrs |-> self, err |-> "ValueError: empty vocabulary"]
       ELSE Fitted([feature_names_ |-> SortedUnique(vocab)])

CountVectorizer_transform_binary(self, raw_documents) ==
    Result([i \in DOMAIN raw_documents |->
              LET toks == analyze(raw_documents[i])
              IN [j \in DOMAIN self.feature_names_ |->
                    IF self.feature_names_[j] \in Range(toks) THEN 1 ELSE 0]],
           "none")

CountVectorizer_transform(self, raw_documents) ==
    Result([i \in DOMAIN raw_documents |->
              LET toks == analyze(raw_documents[i])
              IN [j \in DOMAIN self.feature_names_ |->
                    Cardinality({k \in DOMAIN toks : toks[k] = self.feature_names_[j]})]],
           "none")

----------------------------------------------------------------------------
(* Rational numbers <<numerator, denominator>> stand for the float cells;   *)
(* <<0, 0>> is nan                                                          *)

nan == <<0, 0>>

RECURSIVE GCD(_, _)
GCD(a, b) == IF b = 0 THEN a ELSE GCD(b, a % b)

Abs(n) == IF n < 0 THEN -n ELSE n

Rat(n, d) ==
    LET g == GCD(Abs(n), Abs(d))
        s == IF d < 0 THEN -1 ELSE 1
    IN <<(s * n) \div g, (s * d) \div g>>

R(n) == <<n, 1>>

RAdd(x, y) == Rat(x[1] * y[2] + y[1] * x[2], x[2] * y[2])
RSub(x, y) == Rat(x[1] * y[2] - y[1] * x[2], x[2] * y[2])
RMul(x, y) == Rat(x[1] * y[1], x[2] * y[2])
RDiv(x, y) == Rat(x[1] * y[2], x[2] * y[1])
RLess(x, y) == x[1] * y[2] < y[1] * x[2]

RECURSIVE RSumTo(_, _)
RSumTo(s, n) == IF n = 0 THEN R(0) ELSE RAdd(RSumTo(s, n - 1), s[n])

RSum(s) == RSumTo(s, Len(s))

RECURSIVE RPow(_, _)
RPow(x, e) == IF e = 0 THEN R(1) ELSE RMul(x, RPow(x, e - 1))

RMin(S) == CHOOSE x \in S : \A y \in S : ~RLess(y, x)
RMax(S) == CHOOSE x \in S : \A y \in S : ~RLess(x, y)

NCols(X) == Len(X[1])

Column(X, j) == [i \in DOMAIN X |-> X[i][j]]

----------------------------------------------------------------------------
(* PolynomialFeatures(degree, include_bias)                                 *)

RECURSIVE FlattenTo(_, _)
FlattenTo(ss, n) == IF n = 0 THEN <<>> ELSE FlattenTo(ss, n - 1) \o ss[n]

Flatten(ss) == FlattenTo(ss, Len(ss))

RECURSIVE combinations_w_r_product(_, _, _)
combinations_w_r_product(lo, k, r) ==
    IF r = 0 THEN << <<>> >>
    ELSE Flatten([n \in 1..(k - lo + 1) |->
                    LET i == lo + n - 1
                        rest == combinations_w_r_product(lo, k, r - 1)
                    IN [m \in DOMAIN rest |-> <<i>> \o rest[m]]])

RECURSIVE combinations_w_r(_, _, _)
combinations_w_r(lo, k, r) ==
    IF r = 0 THEN << <<>> >>
    ELSE Flatten([n \in 1..(k - lo + 1) |->
                    LET i == lo + n - 1
                        rest == combinations_w_r(i, k, r - 1)
                    IN [m \in DOMAIN rest |-> <<i>> \o rest[m]]])

combinations(k, degree, include_bias) ==
    LET start == IF include_bias THEN 0 ELSE 1
    IN Flatten([n \in 1..(degree - start + 1) |-> combinations_w_r(1, k, start + n - 1)])

RECURSIVE monomial(_, _, _)
monomial(row, comb, n) ==
    IF n = 0 THEN R(1) ELSE RMul(monomial(row, comb, n - 1), row[comb[n]])

PolynomialFeatures_new == [n_input_features_ |-> 0]

HasNaN(X) == \E i \in DOMAIN X : \E j \in DOMAIN X[i] : X[i][j] = nan

check_array(X) ==
    IF HasNaN(X) THEN "ValueError: Input contains NaN"
    ELSE IF NCols(X) = 0 THEN "ValueError: Found array with 0 feature(s)"
    ELSE "none"

PolynomialFeatures_fit(self, X) ==
    IF check_array(X) # "none" THEN [attrs |-> self, err |-> check_array(X)]
    ELSE Fitted([n_input_features_ |-> NCols(X)])

PolynomialFeatures_transform(k, self, X) ==
    IF check_array(X) # "none" THEN Result(NoOutput, check_array(X))
    ELSE IF NCols(X) # self.n_input_features_
    THEN Result(NoOutput, "ValueError: X shape does not match training shape")
    ELSE LET combs == combinations(self.n_input_features_, k.degree, k.include_bias)
         IN Result([i \in DOMAIN X |->
                      [c \in DOMAIN combs |-> monomial(X[i], combs[c], Len(combs[c]))]],
                   "none")

----------------------------------------------------------------------------
(* SimpleImputer(strategy): statistics_ per column from the observed cells; *)
(* transform drops the columns whose statistic is nan                       *)

Observed(col) == SelectSeq(col, LAMBDA v : v # nan)

mean(col) ==
    LET obs == Observed(col)
    IN IF obs = <<>> THEN nan ELSE RDiv(RSum(obs), R(Len(obs)))

most_frequent_first(col) ==
    LET obs == Observed(col)
        count(v) == Cardinality({i \in DOMAIN obs : obs[i] = v})
        first(v) == CHOOSE i \in DOMAIN obs : obs[i] = v /\ \A m \in 1..(i - 1) : obs[m] # v
        modes == {v \in Range(obs) : \A w \in Range(obs) : count(w) <= count(v)}
    IN IF obs = <<>> THEN nan
       ELSE CHOOSE v \in modes : \A w \in modes : first(v) <= first(w)

most_frequent(col) ==
    LET obs == Observed(col)
        count(v) == Cardinality({i \in DOMAIN obs : obs[i] = v})
        modes == {v \in Range(obs) : \A w \in Range(obs) : count(w) <= count(v)}
    IN IF obs = <<>> THEN nan ELSE RMin(modes)

SimpleImputer_new == [statistics_ |-> <<>>]

SimpleImputer_fit(k, self, X) ==
    Fitted([statistics_ |->
              [j \in 1..NCols(X) |->
                  IF k.strategy = "mean" THEN mean(Column(X, j))
                  ELSE most_frequent(Column(X, j))]])

SimpleImputer_transform(self, X) ==
    IF NCols(X) # Len(self.statistics_)
    THEN Result(NoOutput, "ValueError: X shape does not match training shape")
    ELSE LET valid == SelectSeq([j \in DOMAIN self.statistics_ |-> j],
                                LAMBDA j : self.statistics_[j] # nan)
         IN Result([i \in DOMAIN X |->
                      [c \in DOMAIN valid |->
                          IF X[i][valid[c]] = nan THEN self.statistics_[valid[c]]
                          ELSE X[i][valid[c]]]],
                   "none")

----------------------------------------------------------------------------
(* MinMaxScaler(): fit is _reset() followed by partial_fit(X)               *)

handle_zeros_in_scale(x) == IF x = R(0) THEN R(1) ELSE x

MinMaxScaler_new == [n_samples_seen_ |-> 0, data_min_ |-> <<>>, data_max_ |-> <<>>]

MinMaxScaler_reset_kept(self) == self

MinMaxScaler_reset(self) == MinMaxScaler_new

MinMaxScaler_partial_fit(self, X) ==
    LET first_pass == self.n_samples_seen_ = 0
        lo(j) == RMin(Range(Column(X, j)))
        hi(j) == RMax(Range(Column(X, j)))
    IN [n_samples_seen_ |-> self.n_samples_seen_ + Len(X),
        data_min_ |-> [j \in 1..NCols(X) |->
                          IF first_pass THEN lo(j) ELSE RMin({self.data_min_[j], lo(j)})],
        data_max_ |-> [j \in 1..NCols(X) |->
                          IF first_pass THEN hi(j) ELSE RMax({self.data_max_[j], hi(j)})]]

MinMaxScaler_fit(self, X) == Fitted(MinMaxScaler_partial_fit(MinMaxScaler_reset(self), X))

MinMaxScaler_transform_clip(self, X) ==
    IF NCols(X) # Len(self.data_min_)
    THEN Result(NoOutput, "ValueError: X shape does not match training shape")
    ELSE LET scale_(j) == RDiv(R(1), handle_zeros_in_scale(
                                        RSub(self.data_max_[j], self.data_min_[j])))
             min_(j) == RSub(R(0), RMul(self.data_min_[j], scale_(j)))
             scaled(i, j) == RAdd(RMul(X[i][j], scale_(j)), min_(j))
         IN Result([i \in DOMAIN X |->
                      [j \in 1..NCols(X) |-> RMax({R(0), RMin({R(1), scaled(i, j)})})]],
                   "none")

MinMaxScaler_transform(self, X) ==
    IF NCols(X) # Len(self.data_min_)
    THEN Result(NoOutput, "ValueError: X shape does not match training shape")
    ELSE LET scale_(j) == RDiv(R(1), handle_zeros_in_scale(
                                        RSub(self.data_max_[j], self.data_min_[j])))
             min_(j) == RSub(R(0), RMul(self.data_min_[j], scale_(j)))
         IN Result([i \in DOMAIN X |->
                      [j \in 1..NCols(X) |-> RAdd(RMul(X[i][j], scale_(j)), min_(j))]],
                   "none")

----------------------------------------------------------------------------
(* StandardScaler(): fit is _reset() followed by partial_fit(X), which      *)
(* updates mean_ and var_ incrementally.  scale_ is sqrt(var_); a scaled    *)
(* cell is kept as <<x - mean_, var_>>, standing for (x - mean_)/sqrt(var_) *)

StandardScaler_new == [n_samples_seen_ |-> 0, mean_ |-> <<>>, var_ |-> <<>>]

StandardScaler_reset(self) == StandardScaler_new

RECURSIVE ColSumTo(_, _, _)
ColSumTo(X, j, n) == IF n = 0 THEN R(0) ELSE RAdd(ColSumTo(X, j, n - 1), X[n][j])

RECURSIVE ColSqDevTo(_, _, _, _)
ColSqDevTo(X, j, m, n) ==
    IF n = 0 THEN R(0)
    ELSE RAdd(ColSqDevTo(X, j, m, n - 1), RPow(RSub(X[n][j], m), 2))

incremental_mean_and_var(X, j, last_mean, last_variance, last_sample_count) ==
    LET last_sum == RMul(last_mean, R(last_sample_count))
        new_sum == ColSumTo(X, j, Len(X))
        new_sample_count == Len(X)
        updated_sample_count == last_sample_count + new_sample_count
        updated_mean == RDiv(RAdd(last_sum, new_sum), R(updated_sample_count))
        new_unnormalized_variance ==
            ColSqDevTo(X, j, Rat(new_sum[1], new_sum[2] * new_sample_count), Len(X))
        last_unnormalized_variance == RMul(last_variance, R(last_sample_count))
        last_over_new_count == Rat(last_sample_count, new_sample_count)
        updated_unnormalized_variance ==
            IF last_sample_count = 0 THEN new_unnormalized_variance
            ELSE RAdd(RAdd(last_unnormalized_variance, new_unnormalized_variance),
                      RMul(RDiv(last_over_new_count, R(updated_sample_count)),
                           RPow(RSub(RDiv(last_sum, last_over_new_count), new_sum), 2)))
    IN [mean |-> updated_mean,
        var |-> RDiv(updated_unnormalized_variance, R(updated_sample_count))]

StandardScaler_partial_fit(self, X) ==
    LET first_pass == self.n_samples_seen_ = 0
        upd(j) == incremental_mean_and_var(X, j,
                      IF first_pass THEN R(0) ELSE self.mean_[j],
                      IF first_pass THEN R(0) ELSE self.var_[j],
                      self.n_samples_seen_)
    IN [n_samples_seen_ |-> self.n_samples_seen_ + Len(X),
        mean_ |-> [j \in 1..NCols(X) |-> upd(j).mean],
        var_ |-> [j \in 1..NCols(X) |-> upd(j).var]]

StandardScaler_fit(self, X) ==
    Fitted(StandardScaler_partial_fit(StandardScaler_reset(self), X))

StandardScaler_transform(self, X) ==
    IF NCols(X) # Len(self.mean_)
    THEN Result(NoOutput, "ValueError: X shape does not match training shape")
    ELSE Result([i \in DOMAIN X |->
                   [j \in 1..NCols(X) |->
                       <<RSub(X[i][j], self.mean_[j]), handle_zeros_in_scale(self.var_[j])>>]],
                "none")

----------------------------------------------------------------------------
(* The inputs explored for each class *)

Docs == {evil_queen, Evil_evil_a, a_only}

NumRows1 == {<<R(2)>>, <<R(3)>>}
NumRows2 == {<<R(2), R(3)>>, <<R(3), R(2)>>}
NumMatrices == SeqsUpTo(NumRows1, MaxRows) \cup SeqsUpTo(NumRows2, MaxRows)

NanRows == {<<nan, R(1)>>, <<R(1), R(3)>>, <<R(3), nan>>}

X_nan == << <<nan, R(0), R(3)>>,
            <<R(3), R(7), R(9)>>,
            <<R(3), R(5), R(2)>>,
            <<R(4), nan, R(6)>>,
            <<R(8), R(8), R(1)>> >>

X_column == << <<R(1)>>, <<R(3)>>, <<nan>>, <<R(3)>>, <<R(4)>>, <<R(8)>> >>

NanMatrices == SeqsUpTo(NanRows, MaxRows) \cup {X_nan, X_column}

ScaleRows == NumRows2 \cup {<<R(4), R(1)>>}

df_s1_s2 == [i \in 1..6 |-> <<R(i), R(11 - i)>>]

ScaleMatrices == SeqsUpTo(ScaleRows, MaxRows) \cup {df_s1_s2}

----------------------------------------------------------------------------
(* Dispatch on the estimator's class *)

Classes == {"LabelEncoder", "DictVectorizer", "CountVectorizer", "PolynomialFeatures",
            "SimpleImputer", "MinMaxScaler", "StandardScaler"}

NoArgs == [none |-> TRUE]

Configs(c) ==
    CASE c = "PolynomialFeatures" -> [degree : 1..MaxDegree, include_bias : BOOLEAN]
      [] c = "SimpleImputer" -> [strategy : {"mean", "most_frequent"}]
      [] OTHER -> {NoArgs}

LabelLists == SeqsUpTo(States, MaxLabels) \cup {train, test}
RecordLists ==
    SeqsUpTo([neighborhood : Neighborhoods], MaxRecords)
        \cup {data, <<[neighborhood |-> Fremont], [neighborhood |-> QueenAnne],
                      [neighborhood |-> Fremont]>>}
DocLists == SeqsUpTo(Docs, MaxDocs) \cup {sample}

Inputs(c) ==
    CASE c = "LabelEncoder" -> LabelLists
      [] c = "DictVectorizer" -> RecordLists
      [] c = "CountVectorizer" -> DocLists
      [] c = "SimpleImputer" -> NanMatrices
      [] c = "PolynomialFeatures" -> NumMatrices
      [] c = "MinMaxScaler" -> ScaleMatrices
      [] OTHER -> SeqsUpTo(NumRows2, MaxRows)

Tables ==
    {t \in [gender : SeqsUpTo({male, female}, MaxRecords),
            embarked : SeqsUpTo({port_S, port_C}, MaxRecords)] :
        Len(t.gender) = Len(t.embarked)} \cup {titanic}

Codes == SeqsUpTo(0..(Cardinality(States) - 1), MaxLabels) \cup {<<1, 1, 0, 2>>}

new(c) ==
    CASE c = "LabelEncoder" -> LabelEncoder_new
      [] c = "DictVectorizer" -> DictVectorizer_new
      [] c = "CountVectorizer" -> CountVectorizer_new
      [] c = "PolynomialFeatures" -> PolynomialFeatures_new
      [] c = "SimpleImputer" -> SimpleImputer_new
      [] c = "MinMaxScaler" -> MinMaxScaler_new
      [] c = "StandardScaler" -> StandardScaler_new

fit(c, k, self, X) ==
    CASE c = "LabelEncoder" -> LabelEncoder_fit(self, X)
      [] c = "DictVectorizer" -> DictVectorizer_fit(self, X)
      [] c = "CountVectorizer" -> CountVectorizer_fit(self, X)
      [] c = "PolynomialFeatures" -> PolynomialFeatures_fit(self, X)
      [] c = "SimpleImputer" -> SimpleImputer_fit(k, self, X)
      [] c = "MinMaxScaler" -> MinMaxScaler_fit(self, X)
      [] c = "StandardScaler" -> StandardScaler_fit(self, X)

transform(c, k, self, X) ==
    CASE c = "LabelEncoder" -> LabelEncoder_transform(self, X)
      [] c = "DictVectorizer" -> DictVectorizer_transform(self, X)
      [] c = "CountVectorizer" -> CountVectorizer_transform(self, X)
      [] c = "PolynomialFeatures" -> PolynomialFeatures_transform(k, self, X)
      [] c = "SimpleImputer" -> SimpleImputer_transform(self, X)
      [] c = "MinMaxScaler" -> MinMaxScaler_transform(self, X)
      [] c = "StandardScaler" -> StandardScaler_transform(self, X)

check_is_fitted(c) ==
    IF c = "DictVectorizer" THEN {"NotFittedError", "AttributeError"}
    ELSE {"NotFittedError"}

----------------------------------------------------------------------------
(* d = defaultdict(LabelEncoder) and the two DataFrame.apply cells: one     *)
(* encoder per column, created on first use                                 *)

columns == {"gender", "embarked"}

apply_fit_transform_shared(df) ==
    LET enc == LabelEncoder_fit(LabelEncoder_new, df.embarked).attrs
    IN [d |-> [c \in columns |-> enc],
        codes |-> [c \in columns |->
                     LabelEncoder_transform(
                         LabelEncoder_fit(LabelEncoder_new, df[c]).attrs, df[c]).out]]

apply_fit_transform(df) ==
    LET d == [c \in columns |-> LabelEncoder_fit(LabelEncoder_new, df[c]).attrs]
    IN [d |-> d, codes |-> [c \in columns |-> LabelEncoder_transform(d[c], df[c]).out]]

apply_inverse_transform(d, codes) ==
    [c \in columns |-> LabelEncoder_inverse_transform(d[c], codes[c]).out]

----------------------------------------------------------------------------
(* The estimator object and the calls on it.  op, inp, out and err record   *)
(* the last call, its argument and what it returned or raised               *)

Init ==
    /\ cls \in Classes \cup {"defaultdict"}
    /\ cfg \in Configs(cls)
    /\ fitted = FALSE
    /\ attrs = IF cls = "defaultdict" THEN <<>> ELSE new(cls)
    /\ op = "new"
    /\ inp = <<>>
    /\ out = NoOutput
    /\ err = "none"
    /\ pc = 0
    /\ Xt = <<>>
    /\ calls = <<>>

Fit(X) ==
    /\ cls \in Classes
    /\ LET r == fit(cls, cfg, attrs, X)
       IN /\ attrs' = r.attrs
          /\ fitted' = (fitted \/ r.err = "none")
          /\ err' = r.err
    /\ op' = IF fitted THEN "refit" ELSE "fit"
    /\ inp' = X
    /\ out' = NoOutput
    /\ UNCHANGED <<cls, cfg, pc, Xt, calls>>

Transform_refits(X) ==
    /\ cls \in Classes
    /\ op' = "transform"
    /\ inp' = X
    /\ IF fitted
       THEN LET f == fit(cls, cfg, attrs, X)
                r == IF f.err = "none" THEN transform(cls, cfg, f.attrs, X)
                     ELSE Result(NoOutput, f.err)
            IN attrs' = f.attrs /\ out' = r.out /\ err' = r.err
       ELSE attrs' = attrs /\ out' = NoOutput /\ err' \in check_is_fitted(cls)
    /\ UNCHANGED <<cls, cfg, fitted, pc, Xt, calls>>

Transform(X) ==
    /\ cls \in Classes
    /\ op' = "transform"
    /\ inp' = X
    /\ IF fitted
       THEN LET r == transform(cls, cfg, attrs, X)
            IN out' = r.out /\ err' = r.err
       ELSE out' = NoOutput /\ err' \in check_is_fitted(cls)
    /\ UNCHANGED <<cls, cfg, fitted, attrs, pc, Xt, calls>>

FitTransform(X) ==
    /\ cls \in Classes
    /\ LET f == fit(cls, cfg, attrs, X)
           r == IF f.err = "none" THEN transform(cls, cfg, f.attrs, X)
                ELSE Result(NoOutput, f.err)
       IN /\ attrs' = f.attrs
          /\ fitted' = (fitted \/ f.err = "none")
          /\ out' = r.out
          /\ err' = r.err
    /\ op' = "fit_transform"
    /\ inp' = X
    /\ UNCHANGED <<cls, cfg, pc, Xt, calls>>

InverseTransform(codes) ==
    /\ cls = "LabelEncoder"
    /\ op' = "inverse_transform"
    /\ inp' = codes
    /\ IF fitted
       THEN LET r == LabelEncoder_inverse_transform(attrs, codes)
            IN out' = r.out /\ err' = r.err
       ELSE out' = NoOutput /\ err' = "NotFittedError"
    /\ UNCHANGED <<cls, cfg, fitted, attrs, pc, Xt, calls>>

(* cell "Encoding the variable": df and d are rebuilt, then every column is *)
(* encoded by its own encoder; inp holds df and out holds fit               *)
EncodeTable(df) ==
    /\ cls = "defaultdict"
    /\ LET r == apply_fit_transform(df)
       IN attrs' = r.d /\ out' = r.codes
    /\ fitted' = TRUE
    /\ op' = "apply_fit_transform"
    /\ inp' = df
    /\ err' = "none"
    /\ UNCHANGED <<cls, cfg, pc, Xt, calls>>

(* cell "Inverse the encoded": df_new is computed from fit; out holds df_new *)
DecodeTable ==
    /\ cls = "defaultdict"
    /\ op = "apply_fit_transform"
    /\ out' = apply_inverse_transform(attrs, out)
    /\ op' = "apply_inverse_transform"
    /\ UNCHANGED <<cls, cfg, fitted, attrs, inp, err, pc, Xt, calls>>

Next ==
    \/ \E X \in Inputs(cls) : Fit(X)
    \/ \E X \in Inputs(cls) : Transform(X)
    \/ \E X \in Inputs(cls) : FitTransform(X)
    \/ \E codes \in Codes : InverseTransform(codes)
    \/ \E df \in Tables : EncodeTable(df)
    \/ DecodeTable

Spec == Init /\ [][Next]_vars

----------------------------------------------------------------------------
(* LinearRegression(): the least-squares solution is kept as the data that  *)
(* determines it; a prediction is kept as the fitted solution applied to    *)
(* a row                                                                    *)

LinearRegression_new == [coef_ |-> <<>>]

LinearRegression_fit(self, X, y) ==
    IF check_array(X) # "none" THEN [attrs |-> self, err |-> check_array(X)]
    ELSE IF Len(X) # Len(y)
    THEN [attrs |-> self,
          err |-> "ValueError: Found input variables with inconsistent numbers of samples"]
    ELSE Fitted([coef_ |-> [lstsq_X |-> X, lstsq_y |-> y]])

LinearRegression_predict(self, X) ==
    IF check_array(X) # "none" THEN Result(NoOutput, check_array(X))
    ELSE IF NCols(X) # NCols(self.coef_.lstsq_X)
    THEN Result(NoOutput, "ValueError: shapes not aligned")
    ELSE Result([i \in DOMAIN X |-> [coef_ |-> self.coef_, x |-> X[i]]], "none")

----------------------------------------------------------------------------
(* make_pipeline(...): cfg holds the steps, attrs and fitted hold one entry *)
(* per step.  A call to fit or predict runs step pc on Xt; calls lists the  *)
(* methods the running call has invoked; pc = 0 between calls               *)

Step(c, k) == [cls |-> c, cfg |-> k]

model ==
    <<Step("SimpleImputer", [strategy |-> "mean"]),
      Step("PolynomialFeatures", [degree |-> 2, include_bias |-> TRUE]),
      Step("LinearRegression", NoArgs)>>

pipemodel ==
    <<Step("PolynomialFeatures", [degree |-> 2, include_bias |-> TRUE]),
      Step("LinearRegression", NoArgs)>>

y_notebook == <<14, 16, 0 - 1, 8, 0 - 5>>

PipeRows == {<<nan, R(1)>>, <<R(1), R(3)>>, <<nan, nan>>}

PipeMatrices == SeqsUpTo(PipeRows, MaxRows) \cup {X_nan, X_column}

Targets(X) ==
    {[i \in DOMAIN X |-> i]} \cup (IF X = X_nan THEN {y_notebook} ELSE {})

PipeInit ==
    /\ cls = "Pipeline"
    /\ cfg \in {model, pipemodel}
    /\ fitted = [i \in DOMAIN cfg |-> FALSE]
    /\ attrs = [i \in DOMAIN cfg |->
                  IF i = Len(cfg) THEN LinearRegression_new ELSE new(cfg[i].cls)]
    /\ op = "new"
    /\ inp = <<>>
    /\ out = NoOutput
    /\ err = "none"
    /\ pc = 0
    /\ Xt = <<>>
    /\ calls = <<>>

(* model.fit(X, y) is called *)
PipelineFit(X, y) ==
    /\ cls = "Pipeline" /\ pc = 0
    /\ op' = "fit"
    /\ inp' = [X |-> X, y |-> y]
    /\ Xt' = X
    /\ pc' = 1
    /\ calls' = <<>>
    /\ out' = NoOutput
    /\ err' = "none"
    /\ UNCHANGED <<cls, cfg, fitted, attrs>>

PipelineFitStep_continues ==
    /\ cls = "Pipeline" /\ op = "fit" /\ pc \in 1..(Len(cfg) - 1)
    /\ calls' = Append(calls, <<pc, "fit_transform">>)
    /\ LET f == fit(cfg[pc].cls, cfg[pc].cfg, attrs[pc], Xt)
           r == IF f.err = "none" THEN transform(cfg[pc].cls, cfg[pc].cfg, f.attrs, Xt)
                ELSE Result(NoOutput, f.err)
       IN /\ attrs' = [attrs EXCEPT ![pc] = f.attrs]
          /\ fitted' = [fitted EXCEPT ![pc] = @ \/ f.err = "none"]
          /\ Xt' = IF r.err = "none" THEN r.out ELSE Xt
          /\ pc' = pc + 1
          /\ UNCHANGED err
    /\ UNCHANGED <<cls, cfg, op, inp, out>>

(* Pipeline._fit: Xt = step.fit_transform(Xt, y) for the step pc; an        *)
(* exception leaves the call                                                *)
PipelineFitStep ==
    /\ cls = "Pipeline" /\ op = "fit" /\ pc \in 1..(Len(cfg) - 1)
    /\ calls' = Append(calls, <<pc, "fit_transform">>)
    /\ LET f == fit(cfg[pc].cls, cfg[pc].cfg, attrs[pc], Xt)
           r == IF f.err = "none" THEN transform(cfg[pc].cls, cfg[pc].cfg, f.attrs, Xt)
                ELSE Result(NoOutput, f.err)
       IN /\ attrs' = [attrs EXCEPT ![pc] = f.attrs]
          /\ fitted' = [fitted EXCEPT ![pc] = @ \/ f.err = "none"]
          /\ Xt' = r.out
          /\ err' = r.err
          /\ pc' = IF r.err = "none" THEN pc + 1 ELSE 0
    /\ UNCHANGED <<cls, cfg, op, inp, out>>

(* Pipeline.fit: self._final_estimator.fit(Xt, y) *)
PipelineFitFinal ==
    /\ cls = "Pipeline" /\ op = "fit" /\ pc = Len(cfg)
    /\ calls' = Append(calls, <<pc, "fit">>)
    /\ LET f == LinearRegression_fit(attrs[pc], Xt, inp.y)
       IN /\ attrs' = [attrs EXCEPT ![pc] = f.attrs]
          /\ fitted' = [fitted EXCEPT ![pc] = @ \/ f.err = "none"]
          /\ err' = f.err
    /\ pc' = 0
    /\ UNCHANGED <<cls, cfg, op, inp, out, Xt>>

(* model.predict(X) is called *)
PipelinePredict(X) ==
    /\ cls = "Pipeline" /\ pc = 0
    /\ op' = "predict"
    /\ inp' = [X |-> X, y |-> <<>>]
    /\ Xt' = X
    /\ pc' = 1
    /\ calls' = <<>>
    /\ out' = NoOutput
    /\ err' = "none"
    /\ UNCHANGED <<cls, cfg, fitted, attrs>>

PipelinePredictStep_refits ==
    /\ cls = "Pipeline" /\ op = "predict" /\ pc \in 1..(Len(cfg) - 1)
    /\ calls' = Append(calls, <<pc, "transform">>)
    /\ LET f == fit(cfg[pc].cls, cfg[pc].cfg, attrs[pc], Xt)
           r == IF ~fitted[pc] THEN Result(NoOutput, "NotFittedError")
                ELSE IF f.err = "none"
                THEN transform(cfg[pc].cls, cfg[pc].cfg, f.attrs, Xt)
                ELSE Result(NoOutput, f.err)
       IN /\ attrs' = IF fitted[pc] THEN [attrs EXCEPT ![pc] = f.attrs] ELSE attrs
          /\ Xt' = r.out
          /\ err' = r.err
          /\ pc' = IF r.err = "none" THEN pc + 1 ELSE 0
    /\ UNCHANGED <<cls, cfg, fitted, op, inp, out>>

(* Pipeline.predict: Xt = step.transform(Xt) for the step pc; an exception  *)
(* leaves the call                                                          *)
PipelinePredictStep ==
    /\ cls = "Pipeline" /\ op = "predict" /\ pc \in 1..(Len(cfg) - 1)
    /\ calls' = Append(calls, <<pc, "transform">>)
    /\ LET r == IF fitted[pc] THEN transform(cfg[pc].cls, cfg[pc].cfg, attrs[pc], Xt)
                ELSE Result(NoOutput, "NotFittedError")
       IN /\ Xt' = r.out
          /\ err' = r.err
          /\ pc' = IF r.err = "none" THEN pc + 1 ELSE 0
    /\ UNCHANGED <<cls, cfg, fitted, attrs, op, inp, out>>

(* Pipeline.predict: return self.steps[-1][-1].predict(Xt) *)
PipelinePredictFinal ==
    /\ cls = "Pipeline" /\ op = "predict" /\ pc = Len(cfg)
    /\ calls' = Append(calls, <<pc, "predict">>)
    /\ LET r == IF fitted[pc] THEN LinearRegression_predict(attrs[pc], Xt)
                ELSE Result(NoOutput, "NotFittedError")
       IN out' = r.out /\ err' = r.err
    /\ pc' = 0
    /\ UNCHANGED <<cls, cfg, fitted, attrs, op, inp, Xt>>

PipeNext ==
    \/ \E X \in PipeMatrices : \E y \in Targets(X) : PipelineFit(X, y)
    \/ PipelineFitStep
    \/ PipelineFitFinal
    \/ \E X \in PipeMatrices : PipelinePredict(X)
    \/ PipelinePredictStep
    \/ PipelinePredictFinal

PipeSpec == PipeInit /\ [][PipeNext]_vars

----------------------------------------------------------------------------
(* pandas: df[column].fillna(method=..., inplace=True) on the frame of the  *)
(* fillna cells; attrs holds df                                             *)

sex_m == <<109>>
sex_f == <<102>>

raw_data ==
    [age |-> <<R(42), nan, R(36), R(24), R(73)>>,
     sex |-> <<sex_m, nan, sex_f, sex_m, sex_f>>]

Ages == {nan, R(42), R(36)}
Sexes == {nan, sex_m, sex_f}

Frames ==
    {d \in [age : SeqsUpTo(Ages, MaxFrameRows), sex : SeqsUpTo(Sexes, MaxFrameRows)] :
        Len(d.age) = Len(d.sex)} \cup {raw_data}

RECURSIVE pad_previous_row(_, _)
pad_previous_row(values, n) ==
    IF n = 0 THEN <<>>
    ELSE Append(pad_previous_row(values, n - 1),
                IF values[n] = nan /\ n > 1 THEN values[n - 1] ELSE values[n])

(* method='ffill': each missing value takes the value before it, already    *)
(* filled                                                                   *)
RECURSIVE pad(_, _)
pad(values, n) ==
    IF n = 0 THEN <<>>
    ELSE LET filled == pad(values, n - 1)
         IN Append(filled, IF values[n] = nan /\ n > 1 THEN filled[n - 1] ELSE values[n])

Reverse(values) == [i \in DOMAIN values |-> values[Len(values) + 1 - i]]

(* method='bfill': the same from the last row backwards *)
backfill(values) == Reverse(pad(Reverse(values), Len(values)))

fillna(values, method) ==
    IF method = "ffill" THEN pad(values, Len(values)) ELSE backfill(values)

FrameInit ==
    /\ cls = "DataFrame"
    /\ cfg = NoArgs
    /\ fitted = FALSE
    /\ attrs \in Frames
    /\ op = "new"
    /\ inp = <<>>
    /\ out = NoOutput
    /\ err = "none"
    /\ pc = 0
    /\ Xt = <<>>
    /\ calls = <<>>

Fillna(column, method) ==
    /\ cls = "DataFrame"
    /\ op' = "fillna"
    /\ inp' = [column |-> column, method |-> method]
    /\ attrs' = [attrs EXCEPT ![column] = fillna(@, method)]
    /\ out' = NoOutput
    /\ err' = "none"
    /\ UNCHANGED <<cls, cfg, fitted, pc, Xt, calls>>

FrameNext ==
    \E column \in {"age", "sex"} : \E method \in {"ffill", "bfill"} : Fillna(column, method)

FrameSpec == FrameInit /\ [][FrameNext]_vars

----------------------------------------------------------------------------
(* The cells of the section "Imputation of Missing Data", run in a kernel   *)
(* in any order.  attrs is the kernel's namespace, calls lists the cells    *)
(* run so far (1: X and y, 2: mean imputation, 3: most_frequent imputation, *)
(* 4: LinearRegression), inp holds the arguments of the last fit call       *)

Bind(ns, name, value) ==
    [n \in DOMAIN ns \cup {name} |-> IF n = name THEN value ELSE ns[n]]

NotebookInit ==
    /\ cls = "Notebook"
    /\ cfg = NoArgs
    /\ fitted = FALSE
    /\ attrs = <<>>
    /\ op = "new"
    /\ inp = <<>>
    /\ out = NoOutput
    /\ err = "none"
    /\ pc = 0
    /\ Xt = <<>>
    /\ calls = <<>>

RunCell(k) ==
    /\ cls = "Notebook"
    /\ Len(calls) < MaxRuns
    /\ calls' = Append(calls, k)
    /\ pc' = k
    /\ op' = "run_cell"
    /\ UNCHANGED <<cls, cfg, fitted, Xt>>

(* X = np.array([...]); y = np.array([...]) *)
CellData ==
    /\ RunCell(1)
    /\ attrs' = Bind(Bind(attrs, "X", X_nan), "y", y_notebook)
    /\ inp' = <<>>
    /\ out' = NoOutput
    /\ err' = "none"

(* imp = SimpleImputer(strategy=...); X2 = imp.fit_transform(X); X2 *)
impute_cell(ns, strategy) ==
    IF "X" \notin DOMAIN ns
    THEN [ns |-> Bind(ns, "imp", [cfg |-> [strategy |-> strategy],
                                  attrs |-> SimpleImputer_new]),
          inp |-> <<>>,
          out |-> NoOutput,
          err |-> "NameError: name 'X' is not defined"]
    ELSE LET f == SimpleImputer_fit([strategy |-> strategy], SimpleImputer_new, ns.X)
             r == SimpleImputer_transform(f.attrs, ns.X)
         IN [ns |-> Bind(Bind(ns, "imp", [cfg |-> [strategy |-> strategy],
                                          attrs |-> f.attrs]),
                         "X2", r.out),
             inp |-> [X |-> ns.X, y |-> <<>>],
             out |-> r.out,
             err |-> r.err]

CellMean ==
    /\ RunCell(2)
    /\ LET r == impute_cell(attrs, "mean")
       IN attrs' = r.ns /\ inp' = r.inp /\ out' = r.out /\ err' = r.err

CellMostFrequent ==
    /\ RunCell(3)
    /\ LET r == impute_cell(attrs, "most_frequent")
       IN attrs' = r.ns /\ inp' = r.inp /\ out' = r.out /\ err' = r.err

(* model = LinearRegression().fit(X2, y); model.predict(X2) *)
CellRegression ==
    /\ RunCell(4)
    /\ IF "X2" \notin DOMAIN attrs
       THEN /\ err' = "NameError: name 'X2' is not defined"
            /\ inp' = <<>>
            /\ out' = NoOutput
            /\ attrs' = attrs
       ELSE LET f == LinearRegression_fit(LinearRegression_new, attrs.X2, attrs.y)
                r == IF f.err = "none" THEN LinearRegression_predict(f.attrs, attrs.X2)
                     ELSE Result(NoOutput, f.err)
            IN /\ attrs' = IF f.err = "none" THEN Bind(attrs, "model", f.attrs) ELSE attrs
               /\ inp' = [X |-> attrs.X2, y |-> attrs.y]
               /\ out' = r.out
               /\ err' = r.err

NotebookNext ==
    \/ CellData
    \/ CellMean
    \/ CellMostFrequent
    \/ CellRegression

NotebookSpec == NotebookInit /\ [][NotebookNext]_vars

----------------------------------------------------------------------------
(* Properties *)

(* C1: on a fitted estimator a transform or inverse_transform call leaves   *)
(* the fitted attributes exactly as they were, and what it returns or       *)
(* raises is determined by those attributes and the call's input alone.     *)
C1_TransformKeepsFittedAttrs ==
    [][(fitted /\ op' \in {"transform", "inverse_transform"}) =>
          /\ attrs' = attrs
          /\ fitted'
          /\ Result(out', err') =
                 IF op' = "transform" THEN transform(cls, cfg, attrs, inp')
                 ELSE LabelEncoder_inverse_transform(attrs, inp')]_vars

(* C1 witness: a DictVectorizer has transformed a record whose value is not *)
(* among its feature names.                                                 *)
C1_Witness ==
    /\ cls = "DictVectorizer" /\ op = "transform" /\ fitted /\ err = "none"
    /\ \E i \in DOMAIN inp :
          FeatureName(neighborhood, inp[i].neighborhood) \notin Range(attrs.feature_names_)

C3_Original ==
    (~fitted /\ op \in {"transform", "inverse_transform"}) =>
        (err = "NotFittedError" /\ out = NoOutput)

C5_LabelRoundTrip ==
    /\ (cls = "LabelEncoder" /\ op \in {"transform", "fit_transform"} /\ err = "none") =>
          /\ \A i \in DOMAIN out : out[i] \in 0..(Len(attrs.classes_) - 1)
          /\ \A i, j \in DOMAIN inp : (inp[i] = inp[j]) <=> (out[i] = out[j])
          /\ LabelEncoder_inverse_transform(attrs, out) = Result(inp, "none")
    /\ (cls = "LabelEncoder" /\ op = "inverse_transform" /\ inp = <<1, 1, 0, 2>>
          /\ attrs.classes_ = <<Kedah, Selangor, WilayahPersekutuan>>) =>
          out = <<Selangor, Selangor, Kedah, WilayahPersekutuan>>
    /\ (cls = "defaultdict" /\ op = "apply_fit_transform") =>
          \A c \in columns : \A i \in DOMAIN out[c] :
              out[c][i] \in 0..(Len(attrs[c].classes_) - 1)
    /\ (cls = "defaultdict" /\ op = "apply_inverse_transform") => out = inp

(* C5 witness: the notebook's table has been encoded and decoded again.     *)
C5_Witness ==
    cls = "defaultdict" /\ op = "apply_inverse_transform" /\ inp = titanic /\ out = titanic

(* C6: LabelEncoder.transform on labels of which one is not in classes_     *)
(* raises the unseen-labels error, returns nothing and leaves classes_ as   *)
(* it was.                                                                  *)
C6_UnseenLabelRaises ==
    [][(/\ cls = "LabelEncoder" /\ fitted /\ op' = "transform"
        /\ \E i \in DOMAIN inp' : inp'[i] \notin Range(attrs.classes_)) =>
          /\ err' = "ValueError: y contains previously unseen labels"
          /\ out' = NoOutput
          /\ attrs' = attrs
          /\ fitted']_vars

(* C6 witness: a transform call with a seen and an unseen label has raised. *)
C6_Witness ==
    /\ cls = "LabelEncoder" /\ op = "transform" /\ fitted /\ err # "none"
    /\ \E i \in DOMAIN inp : inp[i] \in Range(attrs.classes_)
    /\ \E i \in DOMAIN inp : inp[i] \notin Range(attrs.classes_)

Precedes(a, b) ==
    \E k \in 1..(Len(b)) :
        /\ \A m \in 1..(k - 1) : m <= Len(a) /\ a[m] = b[m]
        /\ k > Len(a) \/ a[k] < b[k]

Vocabulary == IF cls = "LabelEncoder" THEN attrs.classes_ ELSE attrs.feature_names_

SeenAtFit ==
    CASE cls = "LabelEncoder" -> Range(inp)
      [] cls = "DictVectorizer" ->
            {FeatureName(neighborhood, inp[i].neighborhood) : i \in DOMAIN inp}
      [] cls = "CountVectorizer" -> UNION {Range(analyze(inp[i])) : i \in DOMAIN inp}

(* C7: after a fit the classes / feature names are the distinct values seen *)
(* in the fit data in increasing lexicographic order, so fitting the same   *)
(* data gives the same order, and transforming the fit data again returns   *)
(* what fit_transform returned.                                             *)
C7_SortedVocabulary ==
    (/\ cls \in {"LabelEncoder", "DictVectorizer", "CountVectorizer"}
     /\ op \in {"fit", "refit", "fit_transform"} /\ err = "none") =>
        /\ Range(Vocabulary) = SeenAtFit
        /\ \A i \in 1..(Len(Vocabulary) - 1) : Precedes(Vocabulary[i], Vocabulary[i + 1])
        /\ op = "fit_transform" => transform(cls, cfg, attrs, inp) = Result(out, err)
        /\ (cls = "LabelEncoder" /\ inp = train) =>
              Vocabulary = <<Kedah, Selangor, WilayahPersekutuan>>
        /\ (cls = "CountVectorizer" /\ inp = sample) =>
              Vocabulary = <<evil, horizon, of, problem, queen>>

(* C7 witness: CountVectorizer has been fitted on the notebook's sample.    *)
C7_Witness ==
    /\ cls = "CountVectorizer" /\ op = "fit_transform" /\ inp = sample
    /\ attrs.feature_names_ = <<evil, horizon, of, problem, queen>>

Occurrences(term, doc) ==
    Cardinality({p \in 1..(Len(doc) - Len(term) + 1) :
        /\ \A m \in 1..Len(term) : lower(doc[p + m - 1]) = term[m]
        /\ p = 1 \/ ~IsWordChar(doc[p - 1])
        /\ p + Len(term) > Len(doc) \/ ~IsWordChar(doc[p + Len(term)])})

(* C8: a CountVectorizer output has one column per feature name and each    *)
(* cell is the number of times that term occurs as a word of the document;  *)
(* words that are not feature names add nothing.                            *)
C8_TermCounts ==
    (cls = "CountVectorizer" /\ op \in {"transform", "fit_transform"} /\ err = "none") =>
        /\ DOMAIN out = DOMAIN inp
        /\ \A i \in DOMAIN inp :
              /\ DOMAIN out[i] = DOMAIN attrs.feature_names_
              /\ \A j \in DOMAIN out[i] :
                    out[i][j] = Occurrences(attrs.feature_names_[j], inp[i])

(* C8 witness: a transformed document holds a term twice and another has a  *)
(* word that is not a feature name.                                         *)
C8_Witness ==
    /\ cls = "CountVectorizer" /\ op = "transform" /\ err = "none"
    /\ \E i \in DOMAIN out : \E j \in DOMAIN out[i] : out[i][j] = 2
    /\ \E i \in DOMAIN inp : Range(analyze(inp[i])) \ Range(attrs.feature_names_) # {}

RECURSIVE TotalTo(_, _)
TotalTo(e, n) == IF n = 0 THEN 0 ELSE TotalTo(e, n - 1) + e[n]

Exponents(k, lo, hi) == {e \in [1..k -> 0..hi] : lo <= TotalTo(e, k) /\ TotalTo(e, k) <= hi}

RECURSIVE PowerProductTo(_, _, _)
PowerProductTo(row, e, n) ==
    IF n = 0 THEN R(1) ELSE RMul(PowerProductTo(row, e, n - 1), RPow(row[n], e[n]))

(* C9: the PolynomialFeatures output has, for every exponent vector of      *)
(* total degree 1..degree (and the zero vector when include_bias), exactly  *)
(* one column holding that monomial in every row, and no other column; the  *)
(* constant column comes first; degree 1 without bias returns the input;    *)
(* one column with degree 3 without bias gives x, x^2, x^3.                 *)
C9_Monomials ==
    (cls = "PolynomialFeatures" /\ op \in {"transform", "fit_transform"} /\ err = "none") =>
        LET k == NCols(inp)
            E == Exponents(k, IF cfg.include_bias THEN 0 ELSE 1, cfg.degree)
        IN /\ DOMAIN out = DOMAIN inp
           /\ \A i \in DOMAIN out : Len(out[i]) = Cardinality(E)
           /\ \A e \in E :
                 Cardinality({c \in 1..Cardinality(E) :
                     \A i \in DOMAIN inp : out[i][c] = PowerProductTo(inp[i], e, k)}) = 1
           /\ cfg.include_bias => \A i \in DOMAIN out : out[i][1] = R(1)
           /\ (cfg.degree = 1 /\ ~cfg.include_bias) => out = inp
           /\ (k = 1 /\ cfg.degree = 3 /\ ~cfg.include_bias) =>
                 \A i \in DOMAIN out :
                     out[i] = <<inp[i][1], RMul(inp[i][1], inp[i][1]),
                                RMul(inp[i][1], RMul(inp[i][1], inp[i][1]))>>

(* C9 witness: two columns expanded to degree 2 with the constant column.   *)
C9_Witness ==
    /\ cls = "PolynomialFeatures" /\ op = "fit_transform" /\ err = "none"
    /\ cfg = [degree |-> 2, include_bias |-> TRUE]
    /\ inp[1] = <<R(2), R(3)>>
    /\ out[1] = <<R(1), R(2), R(3), R(4), R(6), R(9)>>

ImputedCell(x, statistic) == IF x = nan THEN statistic ELSE x

(* C10 as stated: the output has the input's shape, observed cells are kept *)
(* and missing cells hold the column's fit mean.                            *)
C10_Original ==
    (/\ cls = "SimpleImputer" /\ cfg.strategy = "mean"
     /\ op \in {"transform", "fit_transform"} /\ err = "none") =>
        /\ DOMAIN out = DOMAIN inp
        /\ \A i \in DOMAIN inp : DOMAIN out[i] = DOMAIN inp[i]
        /\ \A i \in DOMAIN inp : \A j \in DOMAIN inp[i] :
              out[i][j] = ImputedCell(inp[i][j], attrs.statistics_[j])

(* C11 as stated: fitting the imputer on data with a column that has no     *)
(* observed value raises InsufficientData and returns no matrix.            *)
C11_Original ==
    (/\ cls = "SimpleImputer" /\ op \in {"fit", "refit", "fit_transform"}
     /\ \E j \in 1..NCols(inp) : Observed(Column(inp, j)) = <<>>) =>
        (err = "InsufficientData" /\ out = NoOutput)

Count(col, v) == Cardinality({i \in DOMAIN col : col[i] = v})

FirstAt(col, v) == CHOOSE i \in DOMAIN col : col[i] = v /\ \A m \in 1..(i - 1) : col[m] # v

(* C12 as stated: the most_frequent statistic of a column with an observed  *)
(* value is an observed value of the highest count, and among the values of *)
(* that count the one that comes first in row order.                        *)
C12_Original ==
    (/\ cls = "SimpleImputer" /\ cfg.strategy = "most_frequent"
     /\ op \in {"fit", "refit", "fit_transform"} /\ err = "none") =>
        \A j \in 1..NCols(inp) :
            LET col == Column(inp, j)
                s == attrs.statistics_[j]
            IN Observed(col) # <<>> =>
                  /\ s \in Range(col) \ {nan}
                  /\ \A w \in Range(col) \ {nan} :
                        \/ Count(col, w) < Count(col, s)
                        \/ Count(col, w) = Count(col, s) /\ FirstAt(col, s) <= FirstAt(col, w)

(* C12 amended: the most_frequent statistic of a column with an observed    *)
(* value is an observed value of the highest count, and among the values of *)
(* that count the smallest; every missing cell of such a column is filled   *)
(* with the statistic and observed cells are kept.                          *)
C12_SmallestMode ==
    (/\ cls = "SimpleImputer" /\ cfg.strategy = "most_frequent" /\ err = "none"
     /\ op \in {"fit", "refit", "fit_transform", "transform"}) =>
        /\ op # "transform" =>
              \A j \in 1..NCols(inp) :
                  LET col == Column(inp, j)
                      s == attrs.statistics_[j]
                  IN Observed(col) # <<>> =>
                        /\ s \in Range(col) \ {nan}
                        /\ \A w \in Range(col) \ {nan} :
                              \/ Count(col, w) < Count(col, s)
                              \/ Count(col, w) = Count(col, s) /\ ~RLess(w, s)
        /\ (/\ op \in {"transform", "fit_transform"}
            /\ \A j \in DOMAIN attrs.statistics_ : attrs.statistics_[j] # nan) =>
              /\ DOMAIN out = DOMAIN inp
              /\ \A i \in DOMAIN inp :
                    /\ DOMAIN out[i] = DOMAIN inp[i]
                    /\ \A j \in DOMAIN inp[i] :
                          out[i][j] = IF inp[i][j] = nan THEN attrs.statistics_[j]
                                      ELSE inp[i][j]

(* C12 witness: on the notebook's X the second column, whose values all     *)
(* occur once, got the statistic 0, and the third, which starts with 3,     *)
(* got 1.                                                                   *)
C12_Witness ==
    /\ cls = "SimpleImputer" /\ cfg.strategy = "most_frequent"
    /\ op = "fit_transform" /\ inp = X_nan
    /\ attrs.statistics_ = <<R(3), R(0), R(1)>>
    /\ out[4][2] = R(0) /\ out[1][1] = R(3)

Clamp(x) == IF RLess(x, R(0)) THEN R(0) ELSE IF RLess(R(1), x) THEN R(1) ELSE x

MinMaxNorm(x, lo, hi) == RDiv(RSub(x, lo), RSub(hi, lo))

(* C13 as stated: in every column with max > min a cell becomes             *)
(* (x - min) / (max - min) clamped to [0,1], so it lies in [0,1].           *)
C13_Original ==
    (cls = "MinMaxScaler" /\ op \in {"transform", "fit_transform"} /\ err = "none") =>
        \A i \in DOMAIN inp : \A j \in DOMAIN inp[i] :
            RLess(attrs.data_min_[j], attrs.data_max_[j]) =>
                /\ out[i][j] = Clamp(MinMaxNorm(inp[i][j], attrs.data_min_[j],
                                                attrs.data_max_[j]))
                /\ ~RLess(out[i][j], R(0)) /\ ~RLess(R(1), out[i][j])

(* C13 amended: in every column with max > min a cell becomes               *)
(* (x - min) / (max - min), not clamped: it lies in [0,1] exactly when x    *)
(* lies between the fit minimum and maximum, is 0 for the minimum and 1     *)
(* for the maximum; the fit data itself is mapped into [0,1] with a 0 and   *)
(* a 1 in each such column.                                                 *)
C13_MinMaxScaling ==
    (cls = "MinMaxScaler" /\ op \in {"transform", "fit_transform"} /\ err = "none") =>
        \A j \in DOMAIN attrs.data_min_ :
            LET lo == attrs.data_min_[j]
                hi == attrs.data_max_[j]
            IN RLess(lo, hi) =>
                  /\ \A i \in DOMAIN inp :
                        /\ out[i][j] = MinMaxNorm(inp[i][j], lo, hi)
                        /\ (~RLess(out[i][j], R(0)) /\ ~RLess(R(1), out[i][j]))
                              <=> (~RLess(inp[i][j], lo) /\ ~RLess(hi, inp[i][j]))
                        /\ inp[i][j] = lo => out[i][j] = R(0)
                        /\ inp[i][j] = hi => out[i][j] = R(1)
                  /\ op = "fit_transform" =>
                        /\ \A i \in DOMAIN inp :
                              ~RLess(out[i][j], R(0)) /\ ~RLess(R(1), out[i][j])
                        /\ \E i \in DOMAIN inp : inp[i][j] = lo /\ out[i][j] = R(0)
                        /\ \E i \in DOMAIN inp : inp[i][j] = hi /\ out[i][j] = R(1)

(* C13 witness: a scaler fitted on values between 2 and 3 has transformed   *)
(* the row 4, 1 to 2 and -1.                                                *)
C13_Witness ==
    /\ cls = "MinMaxScaler" /\ op = "transform" /\ err = "none"
    /\ attrs.data_min_ = <<R(2), R(2)>> /\ attrs.data_max_ = <<R(3), R(3)>>
    /\ \E i \in DOMAIN inp : inp[i] = <<R(4), R(1)>> /\ out[i] = <<R(2), R(0 - 1)>>

FitCalls == [i \in DOMAIN cfg |-> <<i, IF i = Len(cfg) THEN "fit" ELSE "fit_transform">>]

PredictCalls == [i \in DOMAIN cfg |-> <<i, IF i = Len(cfg) THEN "predict" ELSE "transform">>]

RECURSIVE Through(_)
Through(i) ==
    IF i = 0 THEN inp.X
    ELSE transform(cfg[i].cls, cfg[i].cfg, attrs[i], Through(i - 1)).out

PipelineInOrder ==
    (cls = "Pipeline" /\ op \in {"fit", "predict"}) =>
        LET n == Len(cfg)
            expected == IF op = "fit" THEN FitCalls ELSE PredictCalls
        IN /\ Len(calls) <= n /\ calls = SubSeq(expected, 1, Len(calls))
           /\ pc # 0 => (Len(calls) = pc - 1 /\ Xt = Through(pc - 1))
           /\ (pc = 0 /\ err = "none") => calls = expected
           /\ (op = "fit" /\ pc = 0 /\ err = "none") =>
                 /\ \A i \in 1..(n - 1) :
                       /\ fitted[i]
                       /\ attrs[i] = fit(cfg[i].cls, cfg[i].cfg, new(cfg[i].cls),
                                         Through(i - 1)).attrs
                 /\ fitted[n]
                 /\ attrs[n] = LinearRegression_fit(LinearRegression_new,
                                                    Through(n - 1), inp.y).attrs
           /\ (op = "predict" /\ pc = 0 /\ err = "none") =>
                 out = LinearRegression_predict(attrs[n], Through(n - 1)).out

(* C14: a pipeline call invokes the steps in their declared order, each on  *)
(* the matrix the transforms of the steps before it give; a completed fit   *)
(* has fitted every step on that matrix and the estimator last, on the      *)
(* final matrix and y; a completed predict returns the estimator's          *)
(* prediction for the input passed through every transform; and no step of  *)
(* a predict call changes any step's fitted attributes.                     *)
C14_PipelineOrder ==
    /\ []PipelineInOrder
    /\ [][op' = "predict" => (attrs' = attrs /\ fitted' = fitted)]_vars

(* C14 witness: the notebook's pipeline, fitted, has predicted for the      *)
(* notebook's X through imputer, polynomial features and regression.        *)
C14_Witness ==
    /\ cls = "Pipeline" /\ cfg = model /\ op = "predict" /\ pc = 0 /\ err = "none"
    /\ inp.X = X_nan
    /\ calls = <<<<1, "transform">>, <<2, "transform">>, <<3, "predict">>>>
    /\ Len(out) = 5

StepError ==
    IF op = "fit"
    THEN IF pc = Len(cfg) THEN LinearRegression_fit(attrs[pc], Xt, inp.y).err
         ELSE LET f == fit(cfg[pc].cls, cfg[pc].cfg, attrs[pc], Xt)
              IN IF f.err # "none" THEN f.err
                 ELSE transform(cfg[pc].cls, cfg[pc].cfg, f.attrs, Xt).err
    ELSE IF ~fitted[pc] THEN "NotFittedError"
         ELSE IF pc = Len(cfg) THEN LinearRegression_predict(attrs[pc], Xt).err
         ELSE transform(cfg[pc].cls, cfg[pc].cfg, attrs[pc], Xt).err

(* C15: when the step a pipeline call has reached raises, the call ends     *)
(* there with that step's error unchanged and without a result, and no      *)
(* later step is invoked: the failing step's method is the last entry of    *)
(* calls.                                                                   *)
C15_StageFailureStops ==
    [][(cls = "Pipeline" /\ pc # 0 /\ StepError # "none") =>
          /\ err' = StepError
          /\ pc' = 0
          /\ out' = NoOutput
          /\ Len(calls') = pc
          /\ calls'[pc][1] = pc]_vars

(* C15 witness: fit of the notebook's pipeline has stopped at the           *)
(* polynomial step, which the imputer left without a column.                *)
C15_Witness ==
    /\ cls = "Pipeline" /\ cfg = model /\ op = "fit" /\ pc = 0
    /\ err = "ValueError: Found array with 0 feature(s)"
    /\ calls = <<<<1, "fit_transform">>, <<2, "fit_transform">>>>
    /\ out = NoOutput /\ ~fitted[3]

(* C16: fillna with ffill gives each missing cell of the column the value   *)
(* of the nearest row before it that has one, with bfill of the nearest row *)
(* after it; a missing cell with no such row stays missing; cells that hold *)
(* a value, and the other column, are unchanged; nothing is raised.         *)
C16_FillNearest ==
    [][(cls = "DataFrame" /\ op' = "fillna") =>
          LET column == inp'.column
              before == attrs[column]
              after == attrs'[column]
              source(i) == IF inp'.method = "ffill"
                           THEN {j \in 1..(i - 1) : before[j] # nan}
                           ELSE {j \in (i + 1)..Len(before) : before[j] # nan}
              nearest(i) == CHOOSE j \in source(i) :
                                \A k \in source(i) :
                                    IF inp'.method = "ffill" THEN k <= j ELSE j <= k
          IN /\ err' = "none"
             /\ \A other \in DOMAIN attrs \ {column} : attrs'[other] = attrs[other]
             /\ DOMAIN after = DOMAIN before
             /\ \A i \in DOMAIN before :
                   after[i] = IF before[i] # nan THEN before[i]
                              ELSE IF source(i) = {} THEN nan
                              ELSE before[nearest(i)]]_vars

(* C16 witness: the notebook's frame after the ffill of age and the bfill   *)
(* of sex.                                                                  *)
C16_Witness ==
    /\ cls = "DataFrame" /\ op = "fillna"
    /\ attrs.age = <<R(42), R(42), R(36), R(24), R(73)>>
    /\ attrs.sex = <<sex_m, sex_f, sex_f, sex_m, sex_f>>

(* C17 as stated: when the four cells have been run once each in notebook   *)
(* order, the matrix passed to LinearRegression().fit is X with each        *)
(* missing value replaced by the mean of the observed values of its column. *)
C17_Original ==
    (cls = "Notebook" /\ calls = <<1, 2, 3, 4>>) =>
        /\ err = "none"
        /\ DOMAIN inp.X = DOMAIN attrs.X
        /\ \A i \in DOMAIN attrs.X :
              /\ DOMAIN inp.X[i] = DOMAIN attrs.X[i]
              /\ \A j \in DOMAIN attrs.X[i] :
                    inp.X[i][j] = IF attrs.X[i][j] = nan THEN mean(Column(attrs.X, j))
                                  ELSE attrs.X[i][j]

====
